---------------------------- MODULE Spec2Model ----------------------------
(***************************************************************************)
(* A model of src/server.js: the SQLite store (posts, reactions, replies), *)
(* the HTTP handlers that write to it, and the feed query of               *)
(* GET /api/posts with its seven sort strategies.                          *)
(*                                                                         *)
(* Every db.run / db.all / db.get call is one atomic SQL statement; the    *)
(* callbacks of one request run in the order the handler chains them, and  *)
(* statements of different requests interleave freely.  An in-flight       *)
(* callback is an element of the bag `pending`.                            *)
(*                                                                         *)
(* Time is counted in ticks (TicksPerSec per second).  SQLite's 'now' has  *)
(* sub-second resolution (julianday), while CURRENT_TIMESTAMP and          *)
(* datetime() are text values truncated to whole seconds.                  *)
(*                                                                         *)
(* Not modelled: the text, mood and image columns (no query orders or      *)
(* filters on them), the image upload, GET /api/posts/:id/replies (a read  *)
(* that nothing depends on), I/O errors of the database (the `err`         *)
(* branches that answer 500), and :id parameters that are not numbers      *)
(* (DELETE answers them 400).                                              *)
(***************************************************************************)
EXTENDS Integers, Sequences, FiniteSets, Bags, TLC

\* ----------------------------------------------------------------- bounds
MaxPosts   == 2     \* post ids 1..MaxPosts; requests name only these ids
MaxEvents  == 3     \* likes + reposts + reactions + replies ever stored at once
MaxHours   == 7     \* whole hours the clock may advance
MaxTicks   == 2     \* single ticks the clock may advance within an hour
MaxInflight == 2    \* requests in flight at once (concurrent specification)
TicksPerSec == 2    \* clock resolution of the model (SQLite: 1000 per second)

\* ------------------------------------------------------ program constants
MAX_LENGTH         == 280
RisingWindowHours  == 2
HotWindowHours     == 6

SecsPerHour == 60 * 60
HourTicks   == SecsPerHour * TicksPerSec

PostIds       == 1..MaxPosts
validTypes    == {"love", "haha", "sad", "angry", "fire"}
TypeInputs    == validTypes \cup {"happy"}
TextLengths   == {0, 1, MAX_LENGTH + 1}
\* "" stands for a request without a sort parameter
SortInputs    == {"", "new", "rising", "controversial", "top", "best", "hot",
                  "trending", "banana"}

VARIABLES
    now,        \* the clock, in ticks
    seq,        \* sqlite_sequence of posts: the last id AUTOINCREMENT gave
    posts,      \* table posts: id -> [likes, reposts, timestamp (seconds)]
    reactions,  \* table reactions: <<post_id, type>> -> number of rows
    replies,    \* table replies: post_id -> number of rows
    pending,    \* bag of database callbacks in flight
    out,        \* the HTTP response sent by the last step (NoResp if none)
    acked,      \* per post id, the number of 200 answers to like / repost
    up          \* the server process is running

vars == <<now, seq, posts, reactions, replies, pending, out, acked, up>>
store == <<seq, posts, reactions, replies>>

\* ---------------------------------------------------------------- helpers
RECURSIVE SumOver(_, _)
SumOver(S, f) ==
    IF S = {} THEN 0
    ELSE LET x == CHOOSE y \in S : TRUE IN f[x] + SumOver(S \ {x}, f)

\* an HTTP response: kind of request, status (0: the handler threw), the :id
\* of the request, a count in the body; for the feed its sort parameter, the
\* time of its main query and the rows of its body
Resp(k, s, i, c) ==
    [kind |-> k, status |-> s, id |-> i, n |-> c, sort |-> "", at |-> 0, rows |-> << >>]
FeedResp(q, t, r) ==
    [kind |-> "feed", status |-> 200, id |-> 0, n |-> 0, sort |-> q, at |-> t, rows |-> r]
NoResp == Resp("none", 0, 0, 0)
\* a database callback in flight, with what its closure holds
Cont(k, i) == [kind |-> k, id |-> i, sort |-> "", at |-> 0, rows |-> << >>]
FeedCont(q, t, r) == [kind |-> "feed", id |-> 0, sort |-> q, at |-> t, rows |-> r]

\* CURRENT_TIMESTAMP / datetime(): the clock truncated to whole seconds
Seconds(t) == t \div TicksPerSec

\* rows of reactions / replies that name post_id
ReactionRows(pid, T) == SumOver(T, [t \in T |-> reactions[<<pid, t>>]])
Events ==
    SumOver(DOMAIN posts, [p \in DOMAIN posts |-> posts[p].likes + posts[p].reposts])
    + SumOver(PostIds, [p \in PostIds |-> ReactionRows(p, validTypes) + replies[p]])

\* ----------------------------------------------------------- initial state
\* after db.serialize: the three tables exist and are empty
Init ==
    /\ now = 0
    /\ seq = 0
    /\ posts = << >>
    /\ reactions = [k \in PostIds \X validTypes |-> 0]
    /\ replies = [p \in PostIds |-> 0]
    /\ pending = EmptyBag
    /\ out = NoResp
    /\ acked = [p \in PostIds |-> [likes |-> 0, reposts |-> 0]]
    /\ up = TRUE

\* ------------------------------------------------------------------ clock
Tick ==
    /\ up
    /\ (now % HourTicks) < MaxTicks
    /\ now' = now + 1
    /\ out' = NoResp
    /\ UNCHANGED <<store, pending, acked, up>>

Hour ==
    /\ up
    /\ (now \div HourTicks) < MaxHours
    /\ now' = now + HourTicks
    /\ out' = NoResp
    /\ UNCHANGED <<store, pending, acked, up>>

\* ------------------------------------------------- GET /api/posts: query
\* req.query.sort || 'recent'
SortTypeOf(q) == IF q = "" THEN "recent" ELSE q

\* mutant: `hot` filtered with the window of `rising`
TimeFilterHotAsRising(sortType, ts, t) ==
    CASE sortType = "rising" -> ts >= Seconds(t) - RisingWindowHours * SecsPerHour
      [] sortType = "hot"    -> ts >= Seconds(t) - RisingWindowHours * SecsPerHour
      [] OTHER               -> TRUE

\* mutant: `default:` falls into the branch of `hot`
TimeFilterDefaultAsHot(sortType, ts, t) ==
    CASE sortType = "rising" -> ts >= Seconds(t) - RisingWindowHours * SecsPerHour
      [] sortType \in {"new", "controversial", "top", "best", "trending"} -> TRUE
      [] OTHER               -> ts >= Seconds(t) - HotWindowHours * SecsPerHour

\* switch(sortType): the WHERE clause added by the strategy.
\* posts.timestamp >= datetime('now', '-N hours') compares two texts of the
\* form YYYY-MM-DD HH:MM:SS, i.e. whole seconds.
TimeFilter(sortType, ts, t) ==
    CASE sortType = "rising" -> ts >= Seconds(t) - RisingWindowHours * SecsPerHour
      [] sortType = "hot"    -> ts >= Seconds(t) - HotWindowHours * SecsPerHour
      [] OTHER               -> TRUE

\* LEFT JOIN (SELECT post_id, COUNT(*) ... WHERE type IN T GROUP BY post_id):
\* the subquery has a row only for a post_id with at least one such reaction
ReactionGroup(T) == {p \in PostIds : ReactionRows(p, T) > 0}
ReplyGroup == {p \in PostIds : replies[p] > 0}
\* COALESCE(joined.count, 0)
CoalesceReactions(pid, T) ==
    IF pid \in ReactionGroup(T) THEN ReactionRows(pid, T) ELSE 0
CoalesceReplies(pid) == IF pid \in ReplyGroup THEN replies[pid] ELSE 0

\* mutant: the total joins the subquery of the four counted types only
BaseRowWithoutFire(pid) ==
    [id |-> pid,
     likes |-> posts[pid].likes,
     reposts |-> posts[pid].reposts,
     timestamp |-> posts[pid].timestamp,
     reaction_count |-> CoalesceReactions(pid, {"love", "haha", "angry", "sad"}),
     reply_count |-> CoalesceReplies(pid),
     love_count |-> CoalesceReactions(pid, {"love"}),
     happy_count |-> CoalesceReactions(pid, {"haha"}),
     angry_count |-> CoalesceReactions(pid, {"angry"}),
     sad_count |-> CoalesceReactions(pid, {"sad"})]

\* one row of baseQuery's SELECT list
BaseRow(pid) ==
    [id |-> pid,
     likes |-> posts[pid].likes,
     reposts |-> posts[pid].reposts,
     timestamp |-> posts[pid].timestamp,
     reaction_count |-> CoalesceReactions(pid, validTypes),
     reply_count |-> CoalesceReplies(pid),
     love_count |-> CoalesceReactions(pid, {"love"}),
     happy_count |-> CoalesceReactions(pid, {"haha"}),
     angry_count |-> CoalesceReactions(pid, {"angry"}),
     sad_count |-> CoalesceReactions(pid, {"sad"})]

\* (COALESCE(r.reaction_count,0) + posts.reposts + posts.likes + COALESCE(rep.reply_count,0))
Engagement(r) == r.reaction_count + r.reposts + r.likes + r.reply_count

\* likes + reposts*2 + reaction_count*1.5 + reply_count*0.5, times two (the
\* score is a multiple of 0.5, exact in floating point)
QualityTimes2(r) == 2 * r.likes + 4 * r.reposts + 3 * r.reaction_count + r.reply_count

\* mutant: no ELSE 0 branch, a division by zero taken as infinite
ControversyUnguarded(r) ==
    <<IF r.love_count + r.happy_count > 0 THEN r.angry_count + r.sad_count ELSE 1,
      r.love_count + r.happy_count>>

\* the CASE expression of 'controversial', as a fraction <<numerator, denominator>>
Controversy(r) ==
    IF r.love_count + r.happy_count > 0
    THEN <<r.angry_count + r.sad_count, r.love_count + r.happy_count>>
    ELSE <<0, 1>>

\* julianday("now") - julianday(posts.timestamp), in ticks
Age(r, t) == t - r.timestamp * TicksPerSec

\* engagement * 1000.0 / age as a fraction with a positive denominator; SQLite
\* evaluates a division by zero to NULL
Null == <<0, 0>>
HotScore(r, t) ==
    LET a == Age(r, t) IN
    IF a = 0 THEN Null
    ELSE IF a > 0 THEN <<Engagement(r) * 1000, a>>
    ELSE <<0 - Engagement(r) * 1000, 0 - a>>

FracGreater(x, y) == x[1] * y[2] > y[1] * x[2]
FracEqual(x, y) == x[1] * y[2] = y[1] * x[2]
\* ORDER BY ... DESC on a nullable key: NULL sorts after every number
DescBefore(x, y) ==
    /\ x # Null
    /\ (y = Null \/ FracGreater(x, y))

\* switch(sortType): the ORDER BY clause; a must come before b
OrderBefore(sortType, a, b, t) ==
    CASE sortType = "new" -> a.timestamp > b.timestamp
      [] sortType = "rising" ->
            \/ Engagement(a) > Engagement(b)
            \/ (Engagement(a) = Engagement(b) /\ a.timestamp > b.timestamp)
      [] sortType = "controversial" ->
            \/ FracGreater(Controversy(a), Controversy(b))
            \/ (FracEqual(Controversy(a), Controversy(b))
                  /\ Engagement(a) > Engagement(b))
      [] sortType = "top" -> Engagement(a) > Engagement(b)
      [] sortType = "best" -> QualityTimes2(a) > QualityTimes2(b)
      [] sortType = "hot" -> DescBefore(HotScore(a, t), HotScore(b, t))
      [] OTHER -> a.timestamp > b.timestamp

\* the rows the WHERE clause keeps
Eligible(sortType, t) ==
    {p \in DOMAIN posts : TimeFilter(sortType, posts[p].timestamp, t)}

Orderings(S) ==
    {s \in [1..Cardinality(S) -> S] : \A i, j \in DOMAIN s : i # j => s[i] # s[j]}

\* ORDER BY: SQL leaves the order of rows with equal keys unspecified, so
\* every ordering that respects the keys is a possible result
QueryResults(sortType, t) ==
    {[i \in DOMAIN s |-> BaseRow(s[i])] : s \in
        {s \in Orderings(Eligible(sortType, t)) :
            \A i, j \in DOMAIN s :
                i < j => ~OrderBefore(sortType, BaseRow(s[j]), BaseRow(s[i]), t)}}


\* the response body of GET /api/posts: each row with reactionsMap[row.id] || {}
Annotate(rows, map) ==
    [i \in DOMAIN rows |->
        [row |-> rows[i],
         reactions |-> IF rows[i].id \in DOMAIN map THEN map[rows[i].id] ELSE << >>]]

\* getReactionsForPosts: SELECT post_id, type, COUNT(*) ... WHERE post_id IN (ids)
\* GROUP BY post_id, type, folded into map[post_id][type]
ReactionsMap(ids) ==
    [p \in {q \in ids : ReactionRows(q, validTypes) > 0} |->
        [t \in {u \in validTypes : reactions[<<p, u>>] > 0} |-> reactions[<<p, t>>]]]

Ids(rows) == {rows[i].id : i \in DOMAIN rows}

\* app.get('/api/posts'): the main query; with no rows getReactionsForPosts
\* calls back at once and the response is sent in the same callback
FeedQuery(q) ==
    /\ up
    /\ \E rows \in QueryResults(SortTypeOf(q), now) :
          IF rows = << >>
          THEN /\ out' = FeedResp(q, now, << >>)
               /\ UNCHANGED pending
          ELSE /\ pending' = pending (+) SetToBag({FeedCont(q, now, rows)})
               /\ out' = NoResp
    /\ UNCHANGED <<now, store, acked, up>>

\* the callback of the breakdown query, which sends the response
FeedBreakdown ==
    /\ up
    /\ \E c \in BagToSet(pending) :
          /\ c.kind = "feed"
          /\ pending' = pending (-) SetToBag({c})
          /\ out' = FeedResp(c.sort, c.at, Annotate(c.rows, ReactionsMap(Ids(c.rows))))
    /\ UNCHANGED <<now, store, acked, up>>

\* ------------------------------------------------------ POST /api/posts
InsertPost(tbl, id, t) ==
    [p \in DOMAIN tbl \cup {id} |->
        IF p = id THEN [likes |-> 0, reposts |-> 0, timestamp |-> Seconds(t)]
        ELSE tbl[p]]

CreatePost(len) ==
    /\ up
    /\ IF len = 0 \/ len > MAX_LENGTH
       THEN /\ out' = Resp("create", 400, 0, 0)
            /\ UNCHANGED store
       ELSE /\ seq < MaxPosts
            /\ seq' = seq + 1
            /\ posts' = InsertPost(posts, seq + 1, now)
            /\ out' = Resp("create", 200, seq + 1, 0)
            /\ UNCHANGED <<reactions, replies>>
    /\ UNCHANGED <<now, pending, acked, up>>

\* ---------------------------------------- POST /api/posts/:id/like, /repost
\* mutant: the UPDATE without its WHERE clause
IncLikesEverywhere(tbl, id) ==
    [p \in DOMAIN tbl |-> [tbl[p] EXCEPT !.likes = @ + 1]]

\* UPDATE posts SET likes = likes + 1 WHERE id = ?
IncLikes(tbl, id) ==
    [p \in DOMAIN tbl |-> IF p = id THEN [tbl[p] EXCEPT !.likes = @ + 1] ELSE tbl[p]]
\* UPDATE posts SET reposts = reposts + 1 WHERE id = ?
IncReposts(tbl, id) ==
    [p \in DOMAIN tbl |-> IF p = id THEN [tbl[p] EXCEPT !.reposts = @ + 1] ELSE tbl[p]]

LikeUpdate(id) ==
    /\ up
    /\ Events < MaxEvents
    /\ posts' = IncLikes(posts, id)
    /\ IF posts' = posts     \* this.changes === 0
       THEN /\ out' = Resp("like", 404, id, 0)
            /\ UNCHANGED pending
       ELSE /\ pending' = pending (+) SetToBag({Cont("like", id)})
            /\ out' = NoResp
    /\ UNCHANGED <<now, seq, reactions, replies, acked, up>>

\* db.get(SELECT likes ...): row is undefined when the post is gone, and
\* row.likes then throws inside the callback, which ends the process
LikeSelect ==
    /\ up
    /\ \E c \in BagToSet(pending) :
          /\ c.kind = "like"
          /\ pending' = pending (-) SetToBag({c})
          /\ IF c.id \in DOMAIN posts
             THEN /\ out' = Resp("like", 200, c.id, posts[c.id].likes)
                  /\ acked' = [acked EXCEPT ![c.id].likes = @ + 1]
                  /\ UNCHANGED up
             ELSE /\ out' = Resp("like", 0, c.id, 0)
                  /\ up' = FALSE
                  /\ UNCHANGED acked
    /\ UNCHANGED <<now, store>>

RepostUpdate(id) ==
    /\ up
    /\ Events < MaxEvents
    /\ posts' = IncReposts(posts, id)
    /\ IF posts' = posts
       THEN /\ out' = Resp("repost", 404, id, 0)
            /\ UNCHANGED pending
       ELSE /\ pending' = pending (+) SetToBag({Cont("repost", id)})
            /\ out' = NoResp
    /\ UNCHANGED <<now, seq, reactions, replies, acked, up>>

RepostSelect ==
    /\ up
    /\ \E c \in BagToSet(pending) :
          /\ c.kind = "repost"
          /\ pending' = pending (-) SetToBag({c})
          /\ IF c.id \in DOMAIN posts
             THEN /\ out' = Resp("repost", 200, c.id, posts[c.id].reposts)
                  /\ acked' = [acked EXCEPT ![c.id].reposts = @ + 1]
                  /\ UNCHANGED up
             ELSE /\ out' = Resp("repost", 0, c.id, 0)
                  /\ up' = FALSE
                  /\ UNCHANGED acked
    /\ UNCHANGED <<now, store>>

\* ------------------------------------------- POST /api/posts/:id/react
\* INSERT INTO reactions (post_id, type): the FOREIGN KEY clause of the table
\* is not enforced (no PRAGMA foreign_keys), so any post_id is stored
InsertReaction(tbl, id, type) == [tbl EXCEPT ![<<id, type>>] = @ + 1]

React(id, type) ==
    /\ up
    /\ IF type \notin validTypes
       THEN /\ out' = Resp("react", 400, id, 0)
            /\ UNCHANGED <<reactions, pending>>
       ELSE /\ Events < MaxEvents
            /\ reactions' = InsertReaction(reactions, id, type)
            /\ pending' = pending (+) SetToBag({Cont("react", id)})
            /\ out' = NoResp
    /\ UNCHANGED <<now, seq, posts, replies, acked, up>>

ReactSelect ==
    /\ up
    /\ \E c \in BagToSet(pending) :
          /\ c.kind = "react"
          /\ pending' = pending (-) SetToBag({c})
          /\ out' = Resp("react", 200, c.id, ReactionRows(c.id, validTypes))
    /\ UNCHANGED <<now, store, acked, up>>

\* ------------------------------------------- POST /api/posts/:id/reply
InsertReply(tbl, id) == [tbl EXCEPT ![id] = @ + 1]

Reply(id, len) ==
    /\ up
    /\ IF len = 0
       THEN /\ out' = Resp("reply", 400, id, 0)
            /\ UNCHANGED replies
       ELSE /\ Events < MaxEvents
            /\ replies' = InsertReply(replies, id)
            /\ out' = Resp("reply", 200, id, 0)
    /\ UNCHANGED <<now, seq, posts, reactions, pending, acked, up>>

\* --------------------------------------------- DELETE /api/posts/:id
\* DELETE FROM replies WHERE post_id = ?
DeleteReplies(id) ==
    /\ up
    /\ replies' = [replies EXCEPT ![id] = 0]
    /\ pending' = pending (+) SetToBag({Cont("delete-reactions", id)})
    /\ out' = NoResp
    /\ UNCHANGED <<now, seq, posts, reactions, acked, up>>

\* DELETE FROM reactions WHERE post_id = ?
DeleteReactions ==
    /\ up
    /\ \E c \in BagToSet(pending) :
          /\ c.kind = "delete-reactions"
          /\ reactions' = [k \in DOMAIN reactions |->
                              IF k[1] = c.id THEN 0 ELSE reactions[k]]
          /\ pending' = (pending (-) SetToBag({c}))
                            (+) SetToBag({Cont("delete-post", c.id)})
    /\ out' = NoResp
    /\ UNCHANGED <<now, seq, posts, replies, acked, up>>

\* DELETE FROM posts WHERE id = ?
RemovePost(tbl, id) == [p \in DOMAIN tbl \ {id} |-> tbl[p]]

DeletePost ==
    /\ up
    /\ \E c \in BagToSet(pending) :
          /\ c.kind = "delete-post"
          /\ pending' = pending (-) SetToBag({c})
          /\ posts' = RemovePost(posts, c.id)
          /\ out' = Resp("delete", IF c.id \in DOMAIN posts THEN 200 ELSE 404,
                         c.id, 0)
    /\ UNCHANGED <<now, seq, reactions, replies, acked, up>>

\* ---------------------------------------------------------- specifications
Sequential == pending = EmptyBag
Concurrent == BagCardinality(pending) < MaxInflight

\* ranking over every kind of engagement at one instant, one request at a time
Next ==
    \/ Sequential /\ \E len \in TextLengths : CreatePost(len)
    \/ Sequential /\ \E id \in PostIds : LikeUpdate(id)
    \/ LikeSelect
    \/ Sequential /\ \E id \in PostIds : RepostUpdate(id)
    \/ RepostSelect
    \/ Sequential /\ \E id \in PostIds, type \in TypeInputs : React(id, type)
    \/ ReactSelect
    \/ Sequential /\ \E id \in PostIds, len \in TextLengths : Reply(id, len)
    \/ Sequential /\ \E q \in SortInputs : FeedQuery(q)
    \/ FeedBreakdown

Spec == Init /\ [][Next]_vars

\* ranking over hours of clock time, one request at a time
TimeSorts == {"", "new", "rising", "hot", "trending", "banana"}
NextTime ==
    \/ Sequential /\ Tick
    \/ Sequential /\ Hour
    \/ Sequential /\ \E len \in TextLengths : CreatePost(len)
    \/ Sequential /\ \E id \in PostIds : LikeUpdate(id)
    \/ LikeSelect
    \/ Sequential /\ \E q \in TimeSorts : FeedQuery(q)
    \/ FeedBreakdown

SpecTime == Init /\ [][NextTime]_vars

\* the write handlers with their callbacks interleaved
ConcTypes == {"love", "happy"}
NextConc ==
    \/ Concurrent /\ \E len \in TextLengths : CreatePost(len)
    \/ Concurrent /\ \E id \in PostIds : LikeUpdate(id)
    \/ LikeSelect
    \/ Concurrent /\ \E id \in PostIds : RepostUpdate(id)
    \/ RepostSelect
    \/ Concurrent /\ \E id \in PostIds, type \in ConcTypes : React(id, type)
    \/ ReactSelect
    \/ Concurrent /\ \E id \in PostIds, len \in TextLengths : Reply(id, len)
    \/ Concurrent /\ \E id \in PostIds : DeleteReplies(id)
    \/ DeleteReactions
    \/ DeletePost

SpecConc == Init /\ [][NextConc]_vars

\* the feed's two queries interleaved with react and delete requests
FeedTypes == {"love", "fire", "happy"}
NextFeed ==
    \/ Concurrent /\ \E len \in TextLengths : CreatePost(len)
    \/ Concurrent /\ \E id \in PostIds, type \in FeedTypes : React(id, type)
    \/ ReactSelect
    \/ Concurrent /\ \E id \in PostIds : DeleteReplies(id)
    \/ DeleteReactions
    \/ DeletePost
    \/ Concurrent /\ FeedQuery("")
    \/ FeedBreakdown

SpecFeed == Init /\ [][NextFeed]_vars

\* ------------------------------------------------------------------ claims
IsFeed(sortTypes) == out.kind = "feed" /\ SortTypeOf(out.sort) \in sortTypes
Row(i) == out.rows[i].row
AllSortTypes == {SortTypeOf(q) : q \in SortInputs}

\* C1: under `controversial`, a post whose love_count + haha_count is 0 has
\* ratio exactly 0 whatever its angry_count + sad_count: it is never placed
\* ahead of a post whose ratio is positive, and against a post whose ratio is
\* 0 with a positive denominator the engagement decides.
C1_ZeroDenominatorRanksBehind ==
    IsFeed({"controversial"}) =>
        \A i, j \in DOMAIN out.rows :
            (/\ Row(i).love_count + Row(i).happy_count = 0
             /\ Row(j).love_count + Row(j).happy_count > 0) =>
                /\ Row(j).angry_count + Row(j).sad_count > 0 => j < i
                /\ (/\ Row(j).angry_count + Row(j).sad_count = 0
                    /\ Engagement(Row(i)) > Engagement(Row(j))) => i < j
                /\ (/\ Row(j).angry_count + Row(j).sad_count = 0
                    /\ Engagement(Row(i)) < Engagement(Row(j))) => j < i

\* a controversial feed in which a post with only negative reactions follows
\* a post with the same kind of negative reactions and one positive reaction
C1_Witness ==
    /\ IsFeed({"controversial"})
    /\ \E i, j \in DOMAIN out.rows :
          /\ j < i
          /\ Row(i).love_count + Row(i).happy_count = 0
          /\ Row(i).angry_count + Row(i).sad_count > 0
          /\ Row(j).love_count = 1 /\ Row(j).happy_count = 0
          /\ Row(j).angry_count + Row(j).sad_count > 0

C3_ZeroAgeRanksAhead ==
    IsFeed({"hot"}) =>
        \A i, j \in DOMAIN out.rows :
            (/\ Age(Row(i), out.at) <= 0
             /\ Engagement(Row(i)) > 0
             /\ Age(Row(j), out.at) > 0
             /\ Engagement(Row(j)) <= Engagement(Row(i))) => i < j

\* age of a stored post at the time of the feed's main query, in ticks
AgeAt(p) == out.at - posts[p].timestamp * TicksPerSec
NoDuplicates == Cardinality(Ids([i \in DOMAIN out.rows |-> Row(i)])) = Len(out.rows)
RowIds == {Row(i).id : i \in DOMAIN out.rows}

C5_MetricsCountStoredRows ==
    IsFeed(AllSortTypes) =>
        \A i \in DOMAIN out.rows :
            LET r == Row(i) IN
            /\ r.id \in DOMAIN posts
            /\ r.reaction_count =
                  reactions[<<r.id, "love">>] + reactions[<<r.id, "haha">>]
                  + reactions[<<r.id, "sad">>] + reactions[<<r.id, "angry">>]
                  + reactions[<<r.id, "fire">>]
            /\ r.reply_count = replies[r.id]
            /\ r.love_count = reactions[<<r.id, "love">>]
            /\ r.happy_count = reactions[<<r.id, "haha">>]
            /\ r.angry_count = reactions[<<r.id, "angry">>]
            /\ r.sad_count = reactions[<<r.id, "sad">>]

\* a feed with a post that has 1 love reaction and 1 fire reaction, while a
\* reaction is stored for an id that names no post
C5_Witness ==
    /\ IsFeed(AllSortTypes)
    /\ \E i \in DOMAIN out.rows :
          /\ Row(i).love_count = 1
          /\ reactions[<<Row(i).id, "fire">>] = 1
          /\ Row(i).reaction_count = 2
    /\ \E p \in PostIds \ DOMAIN posts : ReactionRows(p, validTypes) > 0

\* C6: a reaction or a reply is inserted only for a post id that names a post
\* stored at that moment.
C6_InsertsNameStoredPost ==
    [][\A id \in PostIds :
          (\/ ReactionRows(id, validTypes)' > ReactionRows(id, validTypes)
           \/ replies'[id] > replies[id]) => id \in DOMAIN posts]_vars

\* C7: the like and repost counters of a post never decrease; a post's likes
\* (reposts) equal the number of like (repost) requests on it that passed
\* their UPDATE, answered or still awaiting their SELECT, in every
\* interleaving; a 404 answer names no stored post and changes no counter.
InFlight(kind, id) == CopiesIn(Cont(kind, id), pending)
C7_CountersExact ==
    \A p \in DOMAIN posts :
        /\ posts[p].likes = acked[p].likes + InFlight("like", p)
        /\ posts[p].reposts = acked[p].reposts + InFlight("repost", p)
C7_CounterStep ==
    /\ \A p \in DOMAIN posts \cap DOMAIN posts' :
          /\ posts'[p].likes >= posts[p].likes
          /\ posts'[p].reposts >= posts[p].reposts
    /\ (out'.kind \in {"like", "repost"} /\ out'.status = 404) =>
          (posts' = posts /\ out'.id \notin DOMAIN posts)
C7_LikesAndRepostsAtomic == []C7_CountersExact /\ [][C7_CounterStep]_vars

\* two like requests and a repost request on one post, all past their UPDATE,
\* the likes not yet answered
C7_Witness ==
    \E p \in DOMAIN posts :
        /\ InFlight("like", p) = 2
        /\ posts[p].likes = 2
        /\ posts[p].reposts = 1 /\ acked[p].reposts = 1

\* C8: a feed request with an unrecognized or absent strategy name is answered
\* 200 with what `new` answers: every stored post once, no window filter,
\* creation timestamps descending.
C8_UnknownStrategyIsNew ==
    IsFeed({"banana", "recent"}) =>
        /\ out.status = 200
        /\ RowIds = DOMAIN posts
        /\ NoDuplicates
        /\ \A i, j \in DOMAIN out.rows :
              i < j => posts[Row(i).id].timestamp >= posts[Row(j).id].timestamp
        /\ [i \in DOMAIN out.rows |-> Row(i)] \in QueryResults("new", out.at)

\* an answer to sort=banana that puts a newer post with fewer likes ahead of
\* a post more than 6 hours old
C8_Witness ==
    /\ IsFeed({"banana"})
    /\ Len(out.rows) = 2
    /\ Row(1).timestamp > Row(2).timestamp
    /\ Row(1).likes < Row(2).likes
    /\ AgeAt(Row(2).id) > HotWindowHours * HourTicks

\* C9: once a post has been deleted, no reply and no reaction names its id.
C9_NoDanglingAfterDelete ==
    \A id \in 1..seq :
        id \notin DOMAIN posts =>
            (ReactionRows(id, validTypes) = 0 /\ replies[id] = 0)

\* C10: in every feed response the counts of a post's `reactions` breakdown
\* add up to its reaction_count, the love/haha/angry/sad entries equal the
\* metrics of the row, and the breakdown is empty when reaction_count is 0.
Entry(b, t) == IF t \in DOMAIN b THEN b[t] ELSE 0
C10_BreakdownMatchesMetrics ==
    IsFeed(AllSortTypes) =>
        \A i \in DOMAIN out.rows :
            LET b == out.rows[i].reactions IN
            /\ SumOver(DOMAIN b, b) = Row(i).reaction_count
            /\ Entry(b, "love") = Row(i).love_count
            /\ Entry(b, "haha") = Row(i).happy_count
            /\ Entry(b, "angry") = Row(i).angry_count
            /\ Entry(b, "sad") = Row(i).sad_count

=============================================================================
